---- MODULE Spec2Model ----
(***************************************************************************)
(* The four PDF handlers of pdf-tools (merge, split, compress, rotate) as  *)
(* one state machine.  An invocation is one call of exports.handler; it    *)
(* advances from await to await.  Storage is the S3 bucket, now is the     *)
(* millisecond clock behind Date.now().                                    *)
(***************************************************************************)
EXTENDS Integers, Sequences, FiniteSets, TLC

\* ------------------------------------------------------------------ bounds
MaxRuns == 2      \* invocations started in one behaviour
MaxTime == 1      \* largest value the clock reaches
MaxKeys == 2      \* longest fileKeys list of a merge request
MaxSize == 3      \* largest declared size / serialized length of compress

\* ------------------------------------------------------- program constants
ExpiresIn == 3600

Procs == {1, 2}

\* --------------------------------------------------------------- JS values
\* A JavaScript value as far as the handlers look at it: n is the value of a
\* number, c the characters of a string.
Undefined == [t |-> "undefined", n |-> 0, c |-> <<>>]
Null      == [t |-> "null", n |-> 0, c |-> <<>>]
True      == [t |-> "boolean", n |-> 1, c |-> <<>>]
NaN       == [t |-> "NaN", n |-> 0, c |-> <<>>]
NegInf    == [t |-> "-Infinity", n |-> 0, c |-> <<>>]
Num(n)    == [t |-> "number", n |-> n, c |-> <<>>]
Str(c)    == [t |-> "string", n |-> 0, c |-> c]

Digits == <<"0", "1", "2", "3", "4", "5", "6", "7", "8", "9">>
IsDigit(ch) == \E d \in 1..10 : Digits[d] = ch
DigitVal(ch) == (CHOOSE d \in 1..10 : Digits[d] = ch) - 1

RECURSIVE TrimLeft(_)
TrimLeft(c) == IF c # <<>> /\ Head(c) = " " THEN TrimLeft(Tail(c)) ELSE c

RECURSIVE TrimRight(_)
TrimRight(c) ==
  IF c # <<>> /\ c[Len(c)] = " " THEN TrimRight(SubSeq(c, 1, Len(c) - 1)) ELSE c

RECURSIVE DecimalValue(_, _)
DecimalValue(c, acc) ==
  IF c = <<>> THEN acc ELSE DecimalValue(Tail(c), 10 * acc + DigitVal(Head(c)))

\* Number(string), for strings of spaces, signs, decimal digits and letters
\* that start no numeric literal: white space is trimmed, the empty string is
\* 0, an optional sign and decimal digits give their value, the rest is NaN.
StringToNumber(c) ==
  LET s == TrimRight(TrimLeft(c))
      signed == s # <<>> /\ Head(s) \in {"+", "-"}
      d == IF signed THEN Tail(s) ELSE s
  IN  IF s = <<>> THEN Num(0)
      ELSE IF d # <<>> /\ \A k \in 1..Len(d) : IsDigit(d[k])
           THEN Num(IF signed /\ Head(s) = "-" THEN 0 - DecimalValue(d, 0)
                    ELSE DecimalValue(d, 0))
           ELSE NaN

\* Number(value)
ToNumber(v) ==
  CASE v.t = "undefined" -> NaN
    [] v.t = "null"      -> Num(0)
    [] v.t = "boolean"   -> Num(v.n)
    [] v.t = "string"    -> StringToNumber(v.c)
    [] OTHER             -> v

\* ------------------------------------------------------------- storage keys
\* A key argument of a request body: a string, or absent.
NoKey  == [t |-> "undefined", s |-> ""]
Key(s) == [t |-> "string", s |-> s]
\* !fileKey
FalsyKey(k) == k.t = "undefined" \/ k.s = ""

\* fileKeys of a merge request: an array of key strings, or absent.
NoKeys      == [t |-> "undefined", keys |-> <<>>]
KeyArray(a) == [t |-> "array", keys |-> a]

UploadKeys == {"uploads/a.pdf", "uploads/b.pdf", "uploads/bad.pdf"}
MissingKey == "uploads/none.pdf"

MergedKey(ts)     == "processed/merged-" \o ToString(ts) \o ".pdf"
CompressedKey(ts) == "processed/compressed-" \o ToString(ts) \o ".pdf"
RotatedKey(ts)    == "processed/rotated-" \o ToString(ts) \o ".pdf"
\* `processed/split-${timestamp}-page-${pageNumber}.pdf`
SplitKeyWithoutPage(ts, pageNumber) == "processed/split-" \o ToString(ts) \o ".pdf"

SplitKey(ts, pageNumber) ==
  "processed/split-" \o ToString(ts) \o "-page-" \o ToString(pageNumber) \o ".pdf"

\* ------------------------------------------------------------ documents
\* A page is known by the upload it came from and its index there; rot is its
\* Rotate entry; deltas (history) lists the rotations applied since upload.
Page(src, idx, rot) == [src |-> src, idx |-> idx, rot |-> rot, deltas |-> <<>>]

\* What a key holds: a well-formed document, kept as the page sequence that
\* pdf-lib's save writes and its load reads back, or bytes that do not decode.
Pdf(pages) == [ok |-> TRUE, pages |-> pages]
Junk       == [ok |-> FALSE, pages |-> <<>>]

Uploaded ==
  [k \in UploadKeys |->
     CASE k = "uploads/a.pdf"   -> Pdf(<<Page(k, 0, 0), Page(k, 1, 270)>>)
       [] k = "uploads/b.pdf"   -> Pdf(<<Page(k, 0, 90)>>)
       [] k = "uploads/bad.pdf" -> Junk]

corsHeaders ==
  [h \in {"Access-Control-Allow-Origin", "Access-Control-Allow-Headers",
          "Access-Control-Allow-Methods"} |->
     CASE h = "Access-Control-Allow-Origin"  -> "*"
       [] h = "Access-Control-Allow-Headers" -> "Content-Type"
       [] h = "Access-Control-Allow-Methods" -> "POST, OPTIONS"]

\* --------------------------------------------------------------- the state
\* storage : the bucket, a function from the keys it holds to their content
\* now     : the clock Date.now() reads
\* runs    : invocations started so far
\* active  : the Lambda containers that take invocations
\* inv     : each container's current invocation (the handler's locals)
\* log     : each invocation's storage and transform steps, in order (history)
VARIABLES storage, now, runs, active, inv, log

vars == <<storage, now, runs, active, inv, log>>

NoEvent == [json |-> FALSE, fileKeys |-> NoKeys, fileKey |-> NoKey,
            rotation |-> Undefined]
NoResponse == [statusCode |-> 0]

Idle ==
  [op |-> "none", pc |-> "idle", event |-> NoEvent, srcKey |-> "", i |-> 0,
   stream |-> Junk, buffer |-> Junk, originalSize |-> Undefined, pdf |-> <<>>, out |-> <<>>,
   bytes |-> Junk, compressedSize |-> 0, savedPercent |-> NaN,
   rotationAngle |-> 0, timestamp |-> 0, clockReads |-> 0, outputKey |-> "",
   pages |-> <<>>,
   outcome |-> "pending", response |-> NoResponse]

Ev(e, key, ok) == [e |-> e, key |-> key, ok |-> ok]

Upd(p, r) == inv' = [inv EXCEPT ![p] = r]
Emit(p, e) == log' = [log EXCEPT ![p] = Append(@, e)]

\* The handler's promise rejects: nothing is returned.
ThrownRetries(loc) == loc

Thrown(loc) == [loc EXCEPT !.pc = "done", !.outcome = "thrown"]

\* return { statusCode, headers: corsHeaders(), body }
Respond(loc, status, body) ==
  [loc EXCEPT !.pc = "done", !.outcome = "returned",
              !.response = [statusCode |-> status, headers |-> corsHeaders,
                            body |-> body]]

\* ---------------------------------------------------------------- requests
RequestKeys == DOMAIN storage \cup {MissingKey}

RECURSIVE SeqsUpTo(_, _)
SeqsUpTo(S, n) ==
  IF n = 0 THEN {<<>>}
  ELSE LET shorter == SeqsUpTo(S, n - 1)
       IN  shorter \cup {Append(s, x) : s \in shorter, x \in S}

FileKeyArgs == {NoKey, Key("")} \cup {Key(k) : k \in RequestKeys}

Rotations ==
  {Undefined, Null, True, Num(90), Num(-90), Num(180), Num(45), Num(0), Num(270),
   Str(<<"9", "0">>), Str(<<"-", "9", "0">>), Str(<<" ", "1", "8", "0", " ">>),
   Str(<<"2", "7", "0">>), Str(<<"a", "b", "c">>), Str(<<>>)}

Malformed == NoEvent

MergeEvents ==
  {Malformed, [NoEvent EXCEPT !.json = TRUE]}
  \cup {[NoEvent EXCEPT !.json = TRUE, !.fileKeys = KeyArray(a)] :
          a \in SeqsUpTo(RequestKeys, MaxKeys)}

FileKeyEvents ==
  {Malformed} \cup {[NoEvent EXCEPT !.json = TRUE, !.fileKey = k] : k \in FileKeyArgs}

RotateEvents ==
  {Malformed}
  \cup {[NoEvent EXCEPT !.json = TRUE, !.fileKey = k, !.rotation = r] :
          k \in FileKeyArgs, r \in Rotations}

Init ==
  /\ storage = Uploaded
  /\ now = 0
  /\ runs = 0
  /\ active = {1}
  /\ inv = [p \in Procs |-> Idle]
  /\ log = [p \in Procs |-> <<>>]

\* The hosting layer calls exports.handler(event) in a container that is not
\* running an invocation; the handler then runs up to its first await.
Free(p) ==
  /\ p \in active
  /\ inv[p].pc = "idle"
  /\ runs < MaxRuns

Called(op, ev) == [Idle EXCEPT !.op = op, !.event = ev]

\* The handler's promise has settled: the hosting layer takes the outcome and
\* the container is free again. Nothing of the invocation is kept.
Settle(p) ==
  /\ inv[p].pc = "done"
  /\ Upd(p, Idle)
  /\ log' = [log EXCEPT ![p] = <<>>]
  /\ UNCHANGED <<storage, now, runs, active>>

\* ------------------------------------------------- storage helpers (shared)
\* downloadPdfFromS3, first await: s3.send(GetObjectCommand). A key the bucket
\* does not hold rejects; otherwise the response carries the body stream and
\* the declared ContentLength, which only compress reads.
DeclaredSizes == {Undefined} \cup {Num(n) : n \in 0..MaxSize}

GetObject(p) ==
  /\ inv[p].pc = "send"
  /\ IF inv[p].srcKey \in DOMAIN storage
     THEN /\ \E size \in (IF inv[p].op = "compress" THEN DeclaredSizes
                          ELSE {Undefined}) :
               Upd(p, [inv[p] EXCEPT !.pc = "stream",
                                     !.stream = storage[inv[p].srcKey],
                                     !.originalSize = size])
          /\ Emit(p, Ev("get", inv[p].srcKey, TRUE))
     ELSE /\ Upd(p, Thrown(inv[p]))
          /\ Emit(p, Ev("get", inv[p].srcKey, FALSE))
  /\ UNCHANGED <<storage, now, runs, active>>

\* streamToBuffer: 'end' resolves with the chunks joined, 'error' rejects.
StreamToBuffer(p) ==
  /\ inv[p].pc = "stream"
  /\ \E end \in BOOLEAN :
       /\ Upd(p, IF end THEN [inv[p] EXCEPT !.pc = "load", !.buffer = inv[p].stream]
                 ELSE Thrown(inv[p]))
       /\ Emit(p, Ev("buffer", inv[p].srcKey, end))
  /\ UNCHANGED <<storage, now, runs, active>>

\* What follows await s3.send(uploadCommand): on success the signing step, on
\* failure the rejection propagates out of the handler.
AfterPutAlwaysSigns(loc, ok) == [loc EXCEPT !.pc = "sign"]

AfterPut(loc, ok) == IF ok THEN [loc EXCEPT !.pc = "sign"] ELSE Thrown(loc)

Stored(key, obj) ==
  [k \in DOMAIN storage \cup {key} |-> IF k = key THEN obj ELSE storage[k]]

\* uploadPdfToS3 / uploadPageToS3 / uploadCompressedPdfToS3 /
\* uploadRotatedPdfToS3, first await: s3.send(PutObjectCommand).
PutObject(p) ==
  /\ inv[p].pc = "put"
  /\ \E ok \in BOOLEAN :
       /\ storage' = IF ok THEN Stored(inv[p].outputKey, inv[p].bytes) ELSE storage
       /\ Upd(p, AfterPut(inv[p], ok))
       /\ Emit(p, Ev("put", inv[p].outputKey, ok))
  /\ UNCHANGED <<now, runs, active>>

SignedUrl(key) == [key |-> key, expiresIn |-> ExpiresIn]

\* The page number shown to users: index + 1.
PageNumberZeroBased(i) == i

PageNumber(i) == i + 1

\* savedPercent > 0 ? savedPercent : 0
ReportedUnclamped(savedPercent) == savedPercent

ReportedSavedPercent(savedPercent) ==
  IF savedPercent.t = "number" /\ savedPercent.n > 0 THEN savedPercent ELSE Num(0)

\* The synchronous code that follows a resolved getSignedUrl, up to the next
\* await or the return.
AfterSign(loc, url) ==
  CASE loc.op = "merge" ->
         Respond(loc, 200, [message |-> "PDFs merged successfully",
                            downloadUrl |-> url, outputKey |-> loc.outputKey])
    [] loc.op = "split" ->
         LET pages == Append(loc.pages, [pageNumber |-> PageNumber(loc.i),
                                         downloadUrl |-> url,
                                         outputKey |-> loc.outputKey])
             pageCount == Len(loc.pdf)
         IN  IF loc.i + 1 < pageCount
             THEN [loc EXCEPT !.pages = pages, !.i = loc.i + 1, !.pc = "copy"]
             ELSE Respond([loc EXCEPT !.pages = pages, !.i = loc.i + 1], 200,
                          [message |-> "PDF split into " \o ToString(pageCount)
                                         \o " pages successfully",
                           pageCount |-> pageCount, pages |-> pages])
    [] loc.op = "compress" ->
         Respond(loc, 200,
                 [message |-> "PDF compressed successfully", downloadUrl |-> url,
                  outputKey |-> loc.outputKey,
                  savedPercent |-> ReportedSavedPercent(loc.savedPercent)])
    [] loc.op = "rotate" ->
         Respond(loc, 200,
                 [message |-> "PDF rotated " \o ToString(loc.rotationAngle)
                                \o " degrees successfully",
                  downloadUrl |-> url, outputKey |-> loc.outputKey,
                  pageCount |-> Len(loc.pdf), rotation |-> loc.rotationAngle])

\* Second await of the upload helpers: getSignedUrl(..., { expiresIn: 3600 }).
GetSignedUrl(p) ==
  /\ inv[p].pc = "sign"
  /\ \E ok \in BOOLEAN :
       /\ Upd(p, IF ok THEN AfterSign(inv[p], SignedUrl(inv[p].outputKey))
                 ELSE Thrown(inv[p]))
       /\ Emit(p, Ev("sign", inv[p].outputKey, ok))
  /\ UNCHANGED <<storage, now, runs, active>>

\* -------------------------------------------------------------------- merge
\* if (!fileKeys || fileKeys.length < 2)
MergeRejectsBelowOne(fileKeys) == fileKeys.t = "undefined" \/ Len(fileKeys.keys) < 1

MergeRejects(fileKeys) == fileKeys.t = "undefined" \/ Len(fileKeys.keys) < 2

\* for (const fileKey of fileKeys): the key of the iteration after i
\* completed iterations.
SourceAtReversed(keys, i) == keys[Len(keys) - i]

SourceAt(keys, i) == keys[i + 1]

\* The call of the handler: JSON.parse, the validation, PDFDocument.create(),
\* and the first download's request.
MergeEntry(p) ==
  /\ Free(p)
  /\ \E ev \in MergeEvents :
     LET loc == Called("merge", ev) IN
       Upd(p, IF ~ev.json THEN Thrown(loc)
              ELSE IF MergeRejects(ev.fileKeys)
              THEN Respond(loc, 400,
                           [error |-> "Please provide at least 2 PDF files to merge"])
              ELSE [loc EXCEPT !.pc = "send", !.out = <<>>, !.i = 0,
                                  !.srcKey = SourceAt(ev.fileKeys.keys, 0)])
  /\ runs' = runs + 1
  /\ UNCHANGED <<storage, now, active, log>>

\* PDFDocument.load(pdfBuffer), then getPageIndices and the call of copyPages.
MergeLoad(p) ==
  /\ inv[p].pc = "load" /\ inv[p].op = "merge"
  /\ Upd(p, IF inv[p].buffer.ok
            THEN [inv[p] EXCEPT !.pc = "copy", !.pdf = inv[p].buffer.pages]
            ELSE Thrown(inv[p]))
  /\ Emit(p, Ev("decode", inv[p].srcKey, inv[p].buffer.ok))
  /\ UNCHANGED <<storage, now, runs, active>>

\* pdf.getPageIndices(): [0, 1, ..., n-1]
PageIndices(pdf) == [k \in 1..Len(pdf) |-> k - 1]

\* dest.copyPages(pdf, indices): independent copies, in the order of indices
CopyPages(pdf, indices) == [k \in 1..Len(indices) |-> pdf[indices[k] + 1]]

\* copiedPages.forEach(page => mergedPdf.addPage(page))
AddPagesInFront(out, copied) == copied \o out

AddPages(out, copied) == out \o copied

\* copyPages settles. Resolved: the pages are added; the loop goes to the
\* next key or leaves for mergedPdf.save(). Rejected: the handler rejects.
MergeCopy(p) ==
  /\ inv[p].pc = "copy" /\ inv[p].op = "merge"
  /\ \E ok \in BOOLEAN :
       /\ LET keys == inv[p].event.fileKeys.keys
              out == AddPages(inv[p].out,
                              CopyPages(inv[p].pdf, PageIndices(inv[p].pdf)))
          IN  Upd(p, IF ~ok THEN Thrown(inv[p])
                     ELSE IF inv[p].i + 1 < Len(keys)
                     THEN [inv[p] EXCEPT !.out = out, !.i = inv[p].i + 1,
                                         !.pc = "send",
                                         !.srcKey = SourceAt(keys, inv[p].i + 1)]
                     ELSE [inv[p] EXCEPT !.out = out, !.i = inv[p].i + 1,
                                         !.pc = "save"])
       /\ Emit(p, Ev("copy", inv[p].srcKey, ok))
  /\ UNCHANGED <<storage, now, runs, active>>

\* mergedPdf.save() settles. Resolved: the key is built from Date.now() and
\* the upload's put is sent. Rejected: the handler rejects.
MergeSave(p) ==
  /\ inv[p].pc = "save" /\ inv[p].op = "merge"
  /\ \/ \E t \in now..MaxTime :
          /\ now' = t
          /\ Upd(p, [inv[p] EXCEPT !.pc = "put", !.bytes = Pdf(inv[p].out),
                                   !.timestamp = t, !.clockReads = @ + 1,
                                   !.outputKey = MergedKey(t)])
          /\ Emit(p, Ev("save", "", TRUE))
     \/ /\ now' = now
        /\ Upd(p, Thrown(inv[p]))
        /\ Emit(p, Ev("save", "", FALSE))
  /\ UNCHANGED <<storage, runs, active>>

\* -------------------------------------------------------------------- split
\* if (pageCount < 2)
SplitAcceptsAnyCount(pageCount) == FALSE

SplitRejectsBelowOne(pageCount) == pageCount < 1

SplitRejects(pageCount) == pageCount < 2

\* The call of the handler: JSON.parse, the check of fileKey, and the
\* download's request.
SplitEntry(p) ==
  /\ Free(p)
  /\ \E ev \in FileKeyEvents :
     LET loc == Called("split", ev) IN
       Upd(p, IF ~ev.json THEN Thrown(loc)
              ELSE IF FalsyKey(ev.fileKey)
              THEN Respond(loc, 400, [error |-> "Please provide a PDF file to split"])
              ELSE [loc EXCEPT !.pc = "send", !.srcKey = ev.fileKey.s])
  /\ runs' = runs + 1
  /\ UNCHANGED <<storage, now, active, log>>

\* PDFDocument.load resolves; the page count is checked; the timestamp is
\* read once; the loop starts with PDFDocument.create() and copyPages.
SplitLoad(p) ==
  /\ inv[p].pc = "load" /\ inv[p].op = "split"
  /\ IF ~inv[p].buffer.ok
     THEN Upd(p, Thrown(inv[p])) /\ now' = now
     ELSE LET pdf == inv[p].buffer.pages IN
          IF SplitRejects(Len(pdf))
          THEN /\ Upd(p, Respond([inv[p] EXCEPT !.pdf = pdf], 400,
                           [error |-> "PDF must have at least 2 pages to split"]))
               /\ now' = now
          ELSE \E t \in now..MaxTime :
                 /\ now' = t
                 /\ Upd(p, [inv[p] EXCEPT !.pc = "copy", !.pdf = pdf, !.timestamp = t,
                                          !.clockReads = @ + 1,
                                          !.pages = <<>>, !.i = 0])
  /\ Emit(p, Ev("decode", inv[p].srcKey, inv[p].buffer.ok))
  /\ UNCHANGED <<storage, runs, active>>

\* const [copiedPage] = await singlePagePdf.copyPages(pdf, [i]); addPage
SplitCopy(p) ==
  /\ inv[p].pc = "copy" /\ inv[p].op = "split"
  /\ \E ok \in BOOLEAN :
       /\ Upd(p, IF ~ok THEN Thrown(inv[p])
                 ELSE [inv[p] EXCEPT !.pc = "save",
                         !.out = AddPages(<<>>, SubSeq(CopyPages(inv[p].pdf,
                                                        <<inv[p].i>>), 1, 1))])
       /\ Emit(p, Ev("copy", inv[p].srcKey, ok))
  /\ UNCHANGED <<storage, now, runs, active>>

\* singlePagePdf.save() settles. Resolved: uploadPageToS3(pageBytes, i + 1,
\* timestamp) builds its key and sends the put. Rejected: the handler rejects.
SplitSave(p) ==
  /\ inv[p].pc = "save" /\ inv[p].op = "split"
  /\ \E ok \in BOOLEAN :
       /\ Upd(p, IF ~ok THEN Thrown(inv[p])
                 ELSE [inv[p] EXCEPT !.pc = "put", !.bytes = Pdf(inv[p].out),
                                     !.outputKey = SplitKey(inv[p].timestamp,
                                                            PageNumber(inv[p].i))])
       /\ Emit(p, Ev("save", "", ok))
  /\ UNCHANGED <<storage, now, runs, active>>

\* ----------------------------------------------------------------- compress
\* Math.round(x) for x = num / den with den > 0: halves go up.
RoundDiv(num, den) == (2 * num + den) \div (2 * den)

\* Math.round((1 - compressedSize / originalSize) * 100), in IEEE arithmetic:
\* an undefined divisor gives NaN, 0/0 gives NaN, n/0 gives Infinity and the
\* result -Infinity.
SavedPercent(compressedSize, originalSize) ==
  IF originalSize.t # "number" THEN NaN
  ELSE IF originalSize.n = 0
       THEN (IF compressedSize = 0 THEN NaN ELSE NegInf)
       ELSE Num(RoundDiv((originalSize.n - compressedSize) * 100, originalSize.n))

\* The call of the handler: JSON.parse, the check of fileKey, and the
\* download's request.
CompressEntry(p) ==
  /\ Free(p)
  /\ \E ev \in FileKeyEvents :
     LET loc == Called("compress", ev) IN
       Upd(p, IF ~ev.json THEN Thrown(loc)
              ELSE IF FalsyKey(ev.fileKey)
              THEN Respond(loc, 400,
                           [error |-> "Please provide a PDF file to compress"])
              ELSE [loc EXCEPT !.pc = "send", !.srcKey = ev.fileKey.s])
  /\ runs' = runs + 1
  /\ UNCHANGED <<storage, now, active, log>>

\* compressPdf: PDFDocument.load(pdfBuffer, { ignoreEncryption: true })
CompressLoad(p) ==
  /\ inv[p].pc = "load" /\ inv[p].op = "compress"
  /\ Upd(p, IF inv[p].buffer.ok
            THEN [inv[p] EXCEPT !.pc = "save", !.pdf = inv[p].buffer.pages]
            ELSE Thrown(inv[p]))
  /\ Emit(p, Ev("decode", inv[p].srcKey, inv[p].buffer.ok))
  /\ UNCHANGED <<storage, now, runs, active>>

\* pdf.save({ useObjectStreams: true }) settles. Resolved with bytes of some
\* length: the sizes are compared, the key is built from Date.now(), the put
\* is sent. Rejected: the handler rejects.
\* (The two formatted sizes of the response are not modelled.)
CompressSave(p) ==
  /\ inv[p].pc = "save" /\ inv[p].op = "compress"
  /\ \/ \E n \in 1..MaxSize, t \in now..MaxTime :
          /\ now' = t
          /\ Upd(p, [inv[p] EXCEPT !.pc = "put", !.bytes = Pdf(inv[p].pdf),
                                   !.compressedSize = n,
                                   !.savedPercent =
                                      SavedPercent(n, inv[p].originalSize),
                                   !.timestamp = t, !.clockReads = @ + 1,
                                   !.outputKey = CompressedKey(t)])
          /\ Emit(p, Ev("save", "", TRUE))
     \/ /\ now' = now
        /\ Upd(p, Thrown(inv[p]))
        /\ Emit(p, Ev("save", "", FALSE))
  /\ UNCHANGED <<storage, runs, active>>

\* ------------------------------------------------------------------- rotate
validAngles == {90, -90, 180}

\* validAngles.includes(Number(angle))
validateRotationAlso270(angle) ==
  LET n == ToNumber(angle) IN n.t = "number" /\ n.n \in validAngles \cup {270}

validateRotation(angle) ==
  LET n == ToNumber(angle) IN n.t = "number" /\ n.n \in validAngles

\* const newRotation = currentRotation + rotationAngle
NewRotationOverwrites(currentRotation, rotationAngle) == rotationAngle

NewRotationNormalised(currentRotation, rotationAngle) ==
  (currentRotation + rotationAngle) % 360

NewRotation(currentRotation, rotationAngle) == currentRotation + rotationAngle

\* pages.forEach(page => page.setRotation(degrees(newRotation)))
RotatePages(pages, rotationAngle) ==
  [k \in 1..Len(pages) |->
     [pages[k] EXCEPT !.rot = NewRotation(@, rotationAngle),
                      !.deltas = Append(@, rotationAngle)]]

\* The call of the handler: JSON.parse, the checks of fileKey and rotation,
\* Number(rotation), and the download's request.
RotateEntry(p) ==
  /\ Free(p)
  /\ \E ev \in RotateEvents :
     LET loc == Called("rotate", ev) IN
       Upd(p, IF ~ev.json THEN Thrown(loc)
              ELSE IF FalsyKey(ev.fileKey)
              THEN Respond(loc, 400,
                           [error |-> "Please provide a PDF file to rotate"])
              ELSE IF ~validateRotation(ev.rotation)
              THEN Respond(loc, 400,
                           [error |-> "Invalid rotation. Must be 90, -90, or 180 degrees"])
              ELSE [loc EXCEPT !.pc = "send", !.srcKey = ev.fileKey.s,
                                  !.rotationAngle = ToNumber(ev.rotation).n])
  /\ runs' = runs + 1
  /\ UNCHANGED <<storage, now, active, log>>

\* PDFDocument.load resolves; every page of getPages() gets its new rotation;
\* pdf.save() is called.
RotateLoad(p) ==
  /\ inv[p].pc = "load" /\ inv[p].op = "rotate"
  /\ Upd(p, IF inv[p].buffer.ok
            THEN [inv[p] EXCEPT !.pc = "save",
                                !.pdf = RotatePages(inv[p].buffer.pages,
                                                    inv[p].rotationAngle)]
            ELSE Thrown(inv[p]))
  /\ Emit(p, Ev("decode", inv[p].srcKey, inv[p].buffer.ok))
  /\ UNCHANGED <<storage, now, runs, active>>

\* pdf.save() settles. Resolved: the key is built from Date.now() and the put
\* is sent. Rejected: the handler rejects.
RotateSave(p) ==
  /\ inv[p].pc = "save" /\ inv[p].op = "rotate"
  /\ \/ \E t \in now..MaxTime :
          /\ now' = t
          /\ Upd(p, [inv[p] EXCEPT !.pc = "put", !.bytes = Pdf(inv[p].pdf),
                                   !.timestamp = t, !.clockReads = @ + 1,
                                   !.outputKey = RotatedKey(t)])
          /\ Emit(p, Ev("save", "", TRUE))
     \/ /\ now' = now
        /\ Upd(p, Thrown(inv[p]))
        /\ Emit(p, Ev("save", "", FALSE))
  /\ UNCHANGED <<storage, runs, active>>

Next ==
  \E p \in Procs :
    \/ Settle(p)
    \/ GetObject(p)
    \/ StreamToBuffer(p)
    \/ PutObject(p)
    \/ GetSignedUrl(p)
    \/ MergeEntry(p)
    \/ MergeLoad(p)
    \/ MergeCopy(p)
    \/ MergeSave(p)
    \/ SplitEntry(p)
    \/ SplitLoad(p)
    \/ SplitCopy(p)
    \/ SplitSave(p)
    \/ CompressEntry(p)
    \/ CompressLoad(p)
    \/ CompressSave(p)
    \/ RotateEntry(p)
    \/ RotateLoad(p)
    \/ RotateSave(p)

Spec == Init /\ [][Next]_vars

\* Two containers serve invocations at the same time.
InitPar ==
  /\ storage = Uploaded
  /\ now = 0
  /\ runs = 0
  /\ active = Procs
  /\ inv = [p \in Procs |-> Idle]
  /\ log = [p \in Procs |-> <<>>]

SpecPar == InitPar /\ [][Next]_vars

\* =================================================================== claims
Returned(p, status) ==
  /\ inv[p].pc = "done"
  /\ inv[p].outcome = "returned"
  /\ inv[p].response.statusCode = status

Steps(p, kinds) == {j \in DOMAIN log[p] : log[p][j].e \in kinds}

RECURSIVE Flatten(_)
Flatten(ss) == IF ss = <<>> THEN <<>> ELSE Head(ss) \o Flatten(Tail(ss))

RECURSIVE SumLen(_)
SumLen(ss) == IF ss = <<>> THEN 0 ELSE Len(Head(ss)) + SumLen(Tail(ss))

\* The source documents of a merge request, in the order of fileKeys.
MergeSources(p) ==
  LET keys == inv[p].event.fileKeys.keys
  IN  [k \in 1..Len(keys) |-> storage[keys[k]].pages]

\* C1: the document a merge is about to store has as many pages as its
\* sources together, and its pages are the sources' pages, each source in its
\* own order, the sources in the order of fileKeys; a successful merge has
\* stored exactly that document under the key it returns.
C1_MergeConcatenates ==
  \A p \in Procs :
    /\ (inv[p].op = "merge" /\ inv[p].pc = "put") =>
         /\ inv[p].bytes.ok
         /\ Len(inv[p].bytes.pages) = SumLen(MergeSources(p))
         /\ inv[p].bytes.pages = Flatten(MergeSources(p))
    /\ (inv[p].op = "merge" /\ Returned(p, 200)) =>
         /\ storage[inv[p].outputKey] = inv[p].bytes
         /\ inv[p].response.body.outputKey = inv[p].outputKey
         /\ inv[p].response.body.downloadUrl.key = inv[p].outputKey

C1_Witness ==
  \E p \in Procs :
    /\ inv[p].op = "merge" /\ Returned(p, 200)
    /\ inv[p].event.fileKeys.keys = <<"uploads/a.pdf", "uploads/b.pdf">>
    /\ Len(storage[inv[p].outputKey].pages) = 3
    /\ storage[inv[p].outputKey].pages[3].src = "uploads/b.pdf"

\* C2: a successful split of a D-page source (D >= 2) has made exactly D
\* puts, to D different keys; pages has D entries, entry k with pageNumber k;
\* the object of entry k holds one page, source page k-1; pageCount is D.
C2_SplitOnePerPage ==
  \A p \in Procs :
    (inv[p].op = "split" /\ Returned(p, 200)) =>
      LET D == Len(storage[inv[p].srcKey].pages)
          body == inv[p].response.body
          puts == Steps(p, {"put"})
      IN  /\ D >= 2
          /\ Cardinality(puts) = D
          /\ \A j \in puts : log[p][j].ok
          /\ Cardinality({log[p][j].key : j \in puts}) = D
          /\ body.pageCount = D
          /\ Len(body.pages) = D
          /\ \A k \in 1..D :
               /\ body.pages[k].pageNumber = k
               /\ body.pages[k].outputKey \in {log[p][j].key : j \in puts}
               /\ storage[body.pages[k].outputKey] =
                    Pdf(<<storage[inv[p].srcKey].pages[k]>>)

C2_Witness ==
  \E p \in Procs :
    /\ inv[p].op = "split" /\ Returned(p, 200)
    /\ Len(inv[p].response.body.pages) = 3
    /\ inv[p].response.body.pages[3].pageNumber = 3

\* The page as it was uploaded.
Original(page) == Uploaded[page.src].pages[page.idx + 1]

InAllowedSet(rotation) ==
  \E a \in {90, -90, 180} : ToNumber(rotation) = Num(a)

\* C4: a rotate request (with a body that parses) whose rotation is outside
\* {90, -90, 180} ends in a 400 response with an error and has done no storage
\* get, put or sign; a rotate request that got past validation has a rotation
\* inside the set.
C4_RotationValidated ==
  \A p \in Procs :
    (inv[p].op = "rotate" /\ inv[p].event.json /\ inv[p].pc # "idle") =>
      /\ ~InAllowedSet(inv[p].event.rotation) =>
           /\ Returned(p, 400)
           /\ "error" \in DOMAIN inv[p].response.body
           /\ log[p] = <<>>
      /\ (inv[p].pc # "done" \/ log[p] # <<>>) =>
           /\ InAllowedSet(inv[p].event.rotation)
           /\ inv[p].rotationAngle \in {90, -90, 180}

C4_Witness ==
  \E p \in Procs :
    /\ inv[p].op = "rotate" /\ Returned(p, 400)
    /\ inv[p].event.fileKey = Key("uploads/a.pdf")
    /\ inv[p].event.rotation = Num(45)
    /\ log[p] = <<>>

\* C5: the savedPercent of a successful compress response is an integer >= 0.
C5_SavedPercentNotNegative ==
  \A p \in Procs :
    (inv[p].op = "compress" /\ Returned(p, 200)) =>
      /\ inv[p].response.body.savedPercent.t = "number"
      /\ inv[p].response.body.savedPercent.n \in Nat

C5_Witness ==
  \E p \in Procs :
    /\ inv[p].op = "compress" /\ Returned(p, 200)
    /\ inv[p].originalSize.t = "number"
    /\ inv[p].compressedSize > inv[p].originalSize.n
    /\ inv[p].originalSize.n > 0
    /\ inv[p].savedPercent.n < 0
    /\ inv[p].response.body.savedPercent = Num(0)

\* C6: a merge request (with a body that parses) whose fileKeys is absent or
\* has fewer than 2 entries ends in a 400 response with an error, and has done
\* no storage get, put or sign.
C6_MergeNeedsTwo ==
  \A p \in Procs :
    ( /\ inv[p].op = "merge" /\ inv[p].event.json /\ inv[p].pc # "idle"
      /\ (inv[p].event.fileKeys.t = "undefined" \/ Len(inv[p].event.fileKeys.keys) < 2) )
    => /\ Returned(p, 400)
       /\ "error" \in DOMAIN inv[p].response.body
       /\ log[p] = <<>>

C6_Witness ==
  \E p \in Procs :
    /\ inv[p].op = "merge" /\ Returned(p, 400)
    /\ inv[p].event.fileKeys = KeyArray(<<"uploads/a.pdf">>)
    /\ log[p] = <<>>

\* The invocation has decoded its source and found fewer than 2 pages.
ShortSource(p) ==
  /\ inv[p].op = "split"
  /\ \E j \in Steps(p, {"decode"}) : log[p][j].ok
  /\ Len(inv[p].buffer.pages) < 2

\* C7: a split of a source with fewer than 2 pages ends in a 400 response and
\* has done no storage put and no sign.
C7_SplitNeedsTwoPages ==
  \A p \in Procs :
    ShortSource(p) =>
      /\ Returned(p, 400)
      /\ Steps(p, {"put", "sign"}) = {}

C7_Witness ==
  \E p \in Procs :
    /\ ShortSource(p) /\ Returned(p, 400)
    /\ inv[p].srcKey = "uploads/b.pdf"
    /\ Steps(p, {"put", "sign"}) = {}

\* C8: every finished invocation has returned a response that carries the
\* three cross-origin headers.
C8_EveryOutcomeHasCors ==
  \A p \in Procs :
    inv[p].pc = "done" =>
      /\ inv[p].outcome = "returned"
      /\ inv[p].response.headers = corsHeaders

\* C9: a sign is attempted only right after a successful put of the same key
\* in the same invocation, when the bucket holds the bytes under that key;
\* after a failed put the invocation has ended by throwing, with no sign and
\* no response.
C9_SignOnlyAfterStore ==
  \A p \in Procs :
    /\ \A j \in Steps(p, {"sign"}) :
         /\ j > 1
         /\ log[p][j - 1] = Ev("put", log[p][j].key, TRUE)
    /\ inv[p].pc = "sign" =>
         /\ log[p][Len(log[p])] = Ev("put", inv[p].outputKey, TRUE)
         /\ storage[inv[p].outputKey] = inv[p].bytes
    /\ \A j \in Steps(p, {"put"}) :
         ~log[p][j].ok =>
           /\ j = Len(log[p])
           /\ inv[p].pc = "done"
           /\ inv[p].outcome = "thrown"

C9_Witness ==
  \E p \in Procs :
    /\ inv[p].pc = "done" /\ inv[p].outcome = "thrown"
    /\ log[p] # <<>>
    /\ log[p][Len(log[p])].e = "put"
    /\ ~log[p][Len(log[p])].ok
    /\ inv[p].outputKey \notin DOMAIN storage

\* The request breaks one of the two request invariants.
MergeTooFew(p) ==
  /\ inv[p].op = "merge" /\ inv[p].event.json /\ inv[p].pc # "idle"
  /\ (inv[p].event.fileKeys.t = "undefined" \/ Len(inv[p].event.fileKeys.keys) < 2)

\* C10 as stated: both violations are rejected before any storage work (read
\* or write) and before any transform work.
C10_RejectedBeforeAnyWork ==
  \A p \in Procs :
    (MergeTooFew(p) \/ ShortSource(p)) => (Returned(p, 400) /\ log[p] = <<>>)

\* C10 amended: a merge with fewer than 2 keys is rejected before any storage
\* or transform step; a split of a source with fewer than 2 pages is rejected
\* after exactly one fetch and one decode of that source, before any copy,
\* save, put or sign.
C10_RejectedBeforeWrites ==
  \A p \in Procs :
    /\ MergeTooFew(p) => (Returned(p, 400) /\ log[p] = <<>>)
    /\ ShortSource(p) =>
         /\ Returned(p, 400)
         /\ log[p] = <<Ev("get", inv[p].srcKey, TRUE), Ev("buffer", inv[p].srcKey, TRUE),
                       Ev("decode", inv[p].srcKey, TRUE)>>

C10_Witness ==
  \E p \in Procs :
    /\ ShortSource(p) /\ Returned(p, 400)
    /\ Len(log[p]) = 3
    /\ log[p][1] = Ev("get", "uploads/b.pdf", TRUE)

\* The invocation ended with its promise rejected.
Failed(p) == inv[p].pc = "done" /\ inv[p].outcome = "thrown"

\* The keys this invocation has written to storage and then got a signed URL
\* for.
StoredAndSigned(p) ==
  {log[p][j].key : j \in {i \in Steps(p, {"put"}) : log[p][i].ok}}
  \cap {log[p][j].key : j \in {i \in Steps(p, {"sign"}) : log[p][i].ok}}

\* C11 as stated: an invocation that ended in failure has left no object of
\* its own in storage for which a signed URL was made; a split that fails at
\* page k > 1 leaves no earlier page stored and signed.
C11_FailureLeavesNothingSigned ==
  \A p \in Procs :
    Failed(p) => StoredAndSigned(p) \cap DOMAIN storage = {}

\* C11 amended: a failed step (fetch, assembly, decode, copy, serialize, store
\* or sign) is the last step of its invocation, which ends rejected and
\* returns no response, hence no signed URL; nothing is rolled back: a failed
\* merge, compress or rotate has no object both stored and signed, and a split
\* that fails at page k has exactly its pages 1..k-1 stored and signed.
C11_FailureAbortsNoUrlReturned ==
  \A p \in Procs :
    /\ \A j \in DOMAIN log[p] :
         ~log[p][j].ok => (j = Len(log[p]) /\ Failed(p))
    /\ Failed(p) =>
         /\ inv[p].response = NoResponse
         /\ inv[p].event.json => (log[p] # <<>> /\ ~log[p][Len(log[p])].ok)
         /\ inv[p].op # "split" => StoredAndSigned(p) = {}
         /\ inv[p].op = "split" =>
              /\ StoredAndSigned(p) =
                   {SplitKey(inv[p].timestamp, n) : n \in 1..Len(inv[p].pages)}
              /\ StoredAndSigned(p) \subseteq DOMAIN storage
              /\ Len(inv[p].pages) = inv[p].i

C11_Witness ==
  \E p \in Procs :
    /\ Failed(p) /\ inv[p].op = "split"
    /\ inv[p].i = 1
    /\ log[p][Len(log[p])] = Ev("put", SplitKey(inv[p].timestamp, 2), FALSE)
    /\ StoredAndSigned(p) = {SplitKey(inv[p].timestamp, 1)}
    /\ SplitKey(inv[p].timestamp, 1) \in DOMAIN storage

\* The invocation is between its call and the settling of its promise.
Running(p) == inv[p].pc \notin {"idle", "done"}

\* The keys this invocation has written to storage.
Written(p) == {log[p][j].key : j \in {i \in Steps(p, {"put"}) : log[p][i].ok}}

\* C12: two invocations that run at the same time, whatever their operations
\* and whenever they read the clock, write disjoint sets of storage keys.
C12_ConcurrentKeysDisjoint ==
  \A p, q \in Procs :
    (p # q /\ Running(p) /\ Running(q)) => Written(p) \cap Written(q) = {}

\* The kinds of the steps an invocation has taken, in order.
Kinds(p) == [j \in DOMAIN log[p] |-> log[p][j].e]

IsPrefix(s, t) == Len(s) <= Len(t) /\ SubSeq(t, 1, Len(s)) = s

RECURSIVE Repeat(_, _)
Repeat(s, n) == IF n = 0 THEN <<>> ELSE s \o Repeat(s, n - 1)

\* The one pass of a request: its steps in order, each once.
Pipeline(p) ==
  CASE inv[p].op = "merge" ->
         Repeat(<<"get", "buffer", "decode", "copy">>,
                Len(inv[p].event.fileKeys.keys)) \o <<"save", "put", "sign">>
    [] inv[p].op = "split" ->
         <<"get", "buffer", "decode">>
         \o Repeat(<<"copy", "save", "put", "sign">>, Len(inv[p].pdf))
    [] inv[p].op \in {"compress", "rotate"} ->
         <<"get", "buffer", "decode", "save", "put", "sign">>
    [] OTHER -> <<>>

\* The source key of the j-th step of a request, for the steps that have one.
SourceOfStep(p, j) ==
  IF inv[p].op = "merge"
  THEN inv[p].event.fileKeys.keys[((j - 1) \div 4) + 1]
  ELSE inv[p].event.fileKey.s

\* The steps taken are a prefix of the request's one pass; every fetch,
\* assembly, decode and copy is of the source whose turn it is; a decode
\* directly follows the completed assembly of the same source, which directly
\* follows its get; a put directly follows a completed serialization; no key
\* is put twice or signed twice.
LinearPass(p) ==
  /\ IsPrefix(Kinds(p), Pipeline(p))
  /\ \A j \in Steps(p, {"get", "buffer", "decode", "copy"}) :
       log[p][j].key = SourceOfStep(p, j)
  /\ \A j \in Steps(p, {"decode"}) :
       /\ j > 2
       /\ log[p][j - 1] = Ev("buffer", log[p][j].key, TRUE)
       /\ log[p][j - 2] = Ev("get", log[p][j].key, TRUE)
  /\ \A j \in Steps(p, {"put"}) : j > 1 /\ log[p][j - 1] = Ev("save", "", TRUE)
  /\ \A j, k \in Steps(p, {"put"}) : log[p][j].key = log[p][k].key => j = k
  /\ \A j, k \in Steps(p, {"sign"}) : log[p][j].key = log[p][k].key => j = k
  /\ inv[p].op = "merge" => Cardinality(Steps(p, {"put"})) <= 1

\* C13 as stated: every request is one linear pass, and no key is fetched,
\* put or signed more than once in a request.
C13_OncePerKey ==
  \A p \in Procs :
    /\ LinearPass(p)
    /\ \A j, k \in Steps(p, {"get"}) : log[p][j].key = log[p][k].key => j = k

\* C13 amended: every request is one linear pass; no key is put or signed
\* more than once; a get is attempted at most once per entry of the request
\* (the n-th get of a merge is of fileKeys[n], so a key listed twice is
\* fetched twice); merge fetches and decodes its sources one at a time in
\* fileKeys order before its single store.
C13_OncePerEntry ==
  \A p \in Procs :
    /\ LinearPass(p)
    /\ LET gets == Steps(p, {"get"}) IN
       IF inv[p].op = "merge"
       THEN /\ Cardinality(gets) <= Len(inv[p].event.fileKeys.keys)
            /\ \A j \in gets :
                 log[p][j].key =
                   inv[p].event.fileKeys.keys[Cardinality({k \in gets : k <= j})]
       ELSE Cardinality(gets) <= 1

C13_Witness ==
  \E p \in Procs :
    /\ inv[p].op = "merge" /\ Returned(p, 200)
    /\ inv[p].event.fileKeys.keys = <<"uploads/a.pdf", "uploads/a.pdf">>
    /\ Len(log[p]) = 11
    /\ log[p][1] = Ev("get", "uploads/a.pdf", TRUE)
    /\ log[p][5] = Ev("get", "uploads/a.pdf", TRUE)

\* The indexes of the puts of an invocation up to step j.
PutsUpTo(p, j) == {k \in Steps(p, {"put"}) : k <= j}

\* C14: a split invocation reads the clock once (never before the page count
\* is accepted, never again afterwards); its n-th put is of the key
\* processed/split-<timestamp>-page-<n>.pdf built from that one timestamp; the
\* keys it has put are pairwise distinct; every entry it has collected, and
\* every entry it returns, carries its 1-based page number, that page's key
\* and the URL signed for that same key; a successful split of a D-page
\* document returns D entries with D distinct keys.
C14_SplitKeys ==
  \A p \in Procs :
    inv[p].op = "split" =>
      /\ inv[p].clockReads <= 1
      /\ inv[p].pc \in {"copy", "save", "put", "sign"} => inv[p].clockReads = 1
      /\ Steps(p, {"copy"}) # {} => inv[p].clockReads = 1
      /\ \A j \in Steps(p, {"put"}) :
           log[p][j].key =
             "processed/split-" \o ToString(inv[p].timestamp) \o "-page-"
               \o ToString(Cardinality(PutsUpTo(p, j))) \o ".pdf"
      /\ \A j, k \in Steps(p, {"put"}) : j # k => log[p][j].key # log[p][k].key
      /\ \A n \in DOMAIN inv[p].pages :
           /\ inv[p].pages[n].pageNumber = n
           /\ inv[p].pages[n].outputKey = SplitKey(inv[p].timestamp, n)
           /\ inv[p].pages[n].downloadUrl = SignedUrl(inv[p].pages[n].outputKey)
           /\ Ev("sign", inv[p].pages[n].outputKey, TRUE)
                \in {log[p][j] : j \in DOMAIN log[p]}
      /\ Returned(p, 200) =>
           /\ inv[p].clockReads = 1
           /\ inv[p].response.body.pages = inv[p].pages
           /\ Len(inv[p].pages) = Len(inv[p].pdf)
           /\ Cardinality({inv[p].pages[n].outputKey : n \in DOMAIN inv[p].pages})
                = Len(inv[p].pdf)

C14_Witness ==
  \E p \in Procs :
    /\ inv[p].op = "split" /\ Returned(p, 200)
    /\ inv[p].timestamp = 1
    /\ Len(inv[p].response.body.pages) = 2
    /\ inv[p].response.body.pages[1].outputKey = "processed/split-1-page-1.pdf"
    /\ inv[p].response.body.pages[2].outputKey = "processed/split-1-page-2.pdf"
    /\ inv[p].response.body.pages[2].downloadUrl.key = "processed/split-1-page-2.pdf"

\* C15: a successful rotate with delta r has stored a document with the
\* pages of the fetched source, as many and in the same order, each carrying
\* exactly its fetched angle plus r (not r alone, not reduced into 0..359);
\* the response reports the page count of the document and the numeric value
\* of the request's rotation.
C15_RotateAccumulates ==
  \A p \in Procs :
    (inv[p].op = "rotate" /\ Returned(p, 200)) =>
      LET before == inv[p].buffer.pages
          after  == storage[inv[p].outputKey].pages
          r      == ToNumber(inv[p].event.rotation)
      IN  /\ r.t = "number"
          /\ storage[inv[p].outputKey].ok
          /\ Len(after) = Len(before)
          /\ \A k \in 1..Len(before) :
               /\ after[k].src = before[k].src
               /\ after[k].idx = before[k].idx
               /\ after[k].rot = before[k].rot + r.n
          /\ inv[p].response.body.pageCount = Len(before)
          /\ inv[p].response.body.rotation = r.n
          /\ inv[p].response.body.outputKey = inv[p].outputKey

C15_Witness ==
  \E p \in Procs :
    /\ inv[p].op = "rotate" /\ Returned(p, 200)
    /\ inv[p].event.rotation = Str(<<" ", "1", "8", "0", " ">>)
    /\ inv[p].buffer.pages[2].rot = 270
    /\ storage[inv[p].outputKey].pages[2].rot = 450
    /\ inv[p].response.body.pageCount = 2
    /\ inv[p].response.body.rotation = 180

====
